---- MODULE Spec2Model ----
(***************************************************************************)
(* Model of the persistent client of claude-code-sdk-ts:                   *)
(*   controllablePromise      (src/src/persistent/controllable-promise.ts) *)
(*   createMessageGenerator   (src/unnamed/part_001, message-generator.ts) *)
(*   PersistentCLITransport   (src/unnamed/part_000)                       *)
(*   PersistentClient         (src/src/persistent/persistent-client.ts)    *)
(*                                                                         *)
(* The program runs on one JavaScript event loop.  Every action below is   *)
(* one run-to-completion piece of a callback: a macrotask (a timer, an     *)
(* output line, a call of the caller) or the continuation of an await (a   *)
(* microtask).  Macrotasks only run when no microtask is pending; the      *)
(* calls of the caller and the steps of the subprocess are taken between   *)
(* tasks.  query() calls are serialized, as the client's contract asks,    *)
(* and a client starts one session.  The subprocess answers every input    *)
(* line with a content record and a result record.                         *)
(*                                                                         *)
(* Spec is the session of a caller that starts the client and sends its    *)
(* queries one at a time.  The other specifications add one kind of step   *)
(* each: terminate() calls (SpecTerminate), stop() calls (SpecStop), the   *)
(* abort signal (SpecAbort), a subprocess that ends a turn with an         *)
(* error-typed record (SpecFailure), a query() made while another waits    *)
(* (SpecOverlap), further start() calls (SpecSingleUse).                   *)
(***************************************************************************)
EXTENDS Integers, Sequences, FiniteSets, TLC

\* ---- bounds of the model -------------------------------------------------
MaxQueries == 1
\* the lines that are not records of a turn, at most
MaxNoise == 1

Queries == 1..MaxQueries
\* a query() call made while an earlier query() call is still waiting
OverlapQuery == MaxQueries + 1
QueryCalls == Queries \cup {OverlapQuery}
\* the prompt given to the feeder before its first pull
EarlyPrompt == OverlapQuery + 1
\* the callers of PersistentCLITransport.terminate(): two direct calls and
\* the two PersistentClient.stop() calls that reach it
DirectCalls == {"t1", "t2"}
StopCalls == {"s1", "s2"}
TermCalls == DirectCalls \cup StopCalls
\* the handlers a caller subscribes with PersistentCLITransport.on
Handlers == {"h1", "h2", "h3"}

SeedPrompt == 0
NoValue == -1

VARIABLES
  \* PersistentCLITransport fields
  state,            \* this.state
  process,          \* this.process: "undefined" | "defined"
  sessionId,        \* this.sessionId: "none" | "S1"
  abortAttached,    \* this.cleanupAbort is set and the abort listener is armed
  \* the subprocess behind this.process
  procStatus,       \* "none" | "running" | "exited" | "crashed" | "failed"
  procKilled,       \* this.process.killed
  stdinEnded,       \* this.process.stdin.end() has been called
  stdin,            \* prompt lines written to the input stream
  procRead,         \* number of input lines the subprocess has consumed
  procDone,         \* number of input lines it has answered with a result
  stdout,           \* output lines not yet delivered to the reader loop
  emitsInit,        \* whether this subprocess emits an init record
  initEmitted,
  signalAborted,    \* options.signal.aborted
  \* the loops of the transport
  tStartPc,         \* position of PersistentCLITransport.start
  readerPc,         \* position of processOutput
  writerPc,         \* position of processMessageGenerator
  writerMsg,        \* the message the writer loop holds
  writerTurn,       \* number of turns for which the writer set 'processing'
  termPc,           \* position of each terminate() call
  \* createMessageGenerator closure
  heap,             \* the controllable promises created so far
  sendMessagePromise, \* index in heap of the current promise (0: none)
  genAwait,         \* index of the promise generateMessages is awaiting
  genPc,            \* position of generateMessages
  isTerminated,
  \* PersistentClient fields
  cTransport,       \* this.transport is defined
  cGen,             \* this.messageGenerator is defined
  messageCount,
  pendingMessages,
  cStartPc,         \* position of PersistentClient.start
  seeded,           \* start() was given an initialPrompt
  qPc,              \* position of each query() call
  qResult,          \* what each resolved query() returned
  stopPc,           \* position of each stop() call
  callPc,           \* position of the further start() calls of the caller
  \* observation
  events,           \* every event emitted by PersistentCLITransport.emit
  resultsObserved,  \* number of result records parsed by the reader loop
  linesRead,        \* every line the reader loop has taken from the output
  \* the subscribers of a PersistentCLITransport
  eventHandlers,    \* this.eventHandlers
  lastDispatch      \* what the last call of emit delivered, and to whom

transportVars == <<state, process, sessionId, abortAttached>>
procVars == <<procStatus, procKilled, stdinEnded, stdin, procRead, procDone,
              stdout,
              emitsInit, initEmitted>>
loopVars == <<tStartPc, readerPc, writerPc, writerMsg, writerTurn>>
genVars == <<heap, sendMessagePromise, genAwait, genPc, isTerminated>>
clientVars == <<cTransport, cGen, messageCount, pendingMessages, cStartPc,
                seeded, qPc, qResult, stopPc>>
busVars == <<eventHandlers, lastDispatch>>
vars == <<transportVars, procVars, loopVars, genVars, clientVars,
          signalAborted, termPc, callPc, events, resultsObserved, linesRead,
          busVars>>

ProcessStates == {"not_started", "initializing", "ready", "processing",
                  "paused", "terminating", "terminated", "error"}

\* ---- controllablePromise ---------------------------------------------------
\* The returned object copies the local `status` when it is built; resolve and
\* reject update the local variable and settle the promise.
controllablePromise == [settled |-> "pending", value |-> NoValue,
                        status |-> "pending"]

PromiseResolve(p, v) ==
  IF p.settled = "pending"
    THEN [p EXCEPT !.settled = "resolved", !.value = v]
    ELSE p

PromiseReject(p) ==
  IF p.settled = "pending"
    THEN [p EXCEPT !.settled = "rejected"]
    ELSE p

\* ---- events ------------------------------------------------------------------
Ev(t, s, k, n) == [type |-> t, state |-> s, kind |-> k, turn |-> n]
StateChange(s) == Ev("state_change", s, "-", 0)
ErrorEvent == Ev("error", "-", "-", 0)
SessionInitialized == Ev("session_initialized", "-", "-", 0)
MessageEvent(line) == Ev("message", "-", line.kind, line.turn)

\* PersistentCLITransport.setState: the events it emits
setState(old, new) == IF old # new THEN <<StateChange(new)>> ELSE <<>>

\* an isAlive that does not look at process.killed
isAliveIgnoringKilled ==
  /\ state \notin {"not_started", "terminated", "error"}
  /\ process = "defined"

\* PersistentCLITransport.isAlive
isAlive ==
  /\ state \notin {"not_started", "terminated", "error"}
  /\ process = "defined"
  /\ ~procKilled

\* PersistentClient.isAlive
clientIsAlive == cTransport /\ isAlive

\* ---- the event loop ---------------------------------------------------------
\* the writer loop is between setState('processing') and stdin.write
InSyncBlock == writerPc = "write"

ProcExited == procStatus \in {"exited", "crashed", "failed"}

GenCanResume ==
  /\ genPc = "await"
  /\ heap[genAwait].settled # "pending"

MicrotaskPending ==
  \/ GenCanResume
  \/ writerPc = "body"
  \/ cStartPc = "afterTransportStart"
  \/ \E q \in QueryCalls : qPc[q] = "resolving"
  \/ \E c \in TermCalls : termPc[c] = "awaitExit" /\ ProcExited
  \/ \E s \in StopCalls : stopPc[s] = "awaitTerminate" /\ termPc[s] = "returned"

\* a timer, an I/O callback
Macrotask == ~InSyncBlock /\ ~MicrotaskPending
\* a call made by the caller's own code, from a task of its own
CallerTask == Macrotask


Init ==
  /\ state = "not_started"
  /\ process = "undefined"
  /\ sessionId = "none"
  /\ abortAttached = FALSE
  /\ procStatus = "none"
  /\ procKilled = FALSE
  /\ stdinEnded = FALSE
  /\ stdin = <<>>
  /\ procRead = 0
  /\ procDone = 0
  /\ stdout = <<>>
  /\ emitsInit = FALSE
  /\ initEmitted = FALSE
  /\ signalAborted = FALSE
  /\ tStartPc = "idle"
  /\ readerPc = "off"
  /\ writerPc = "off"
  /\ writerMsg = NoValue
  /\ writerTurn = 0
  /\ termPc = [c \in TermCalls |-> "idle"]
  /\ heap = <<>>
  /\ sendMessagePromise = 0
  /\ genAwait = 0
  /\ genPc = "unstarted"
  /\ isTerminated = FALSE
  /\ cTransport = FALSE
  /\ cGen = FALSE
  /\ messageCount = 0
  /\ pendingMessages = <<>>
  /\ cStartPc = "idle"
  /\ seeded = FALSE
  /\ qPc = [q \in QueryCalls |-> "idle"]
  /\ qResult = [q \in QueryCalls |-> <<>>]
  /\ stopPc = [s \in StopCalls |-> "idle"]
  /\ callPc = [client |-> "idle", transport |-> "idle"]
  /\ events = <<>>
  /\ resultsObserved = 0
  /\ linesRead = <<>>
  /\ eventHandlers = <<>>
  /\ lastDispatch = [atStart |-> <<>>, left |-> {}, threw |-> {},
                     received |-> [h \in Handlers |-> 0]]

\* ---- createMessageGenerator ---------------------------------------------------
\* setNextMessage(message): the heap and the current promise after the call
setNextMessage(m) ==
  IF isTerminated
    THEN [heap |-> heap, smp |-> sendMessagePromise]
    ELSE IF heap[sendMessagePromise].status # "pending"
      THEN [heap |-> Append(heap, PromiseResolve(controllablePromise, m)),
            smp |-> Len(heap) + 1]
      ELSE [heap |-> [heap EXCEPT ![sendMessagePromise] = PromiseResolve(@, m)],
            smp |-> sendMessagePromise]

\* a terminate() that sets the flag and rejects nothing
genTerminateFlagOnly == heap

\* terminate(): the heap after the call (isTerminated is set by the caller)
genTerminate ==
  IF heap[sendMessagePromise].status = "pending"
    THEN [heap EXCEPT ![sendMessagePromise] = PromiseReject(@)]
    ELSE heap

\* a generateMessages that installs no new promise before it yields
GenResumeSamePromise ==
  /\ ~InSyncBlock
  /\ GenCanResume
  /\ IF isTerminated
       THEN /\ genPc' = "done"
            /\ writerPc' = "ended"
            /\ UNCHANGED <<heap, sendMessagePromise, genAwait, writerMsg>>
       ELSE IF heap[genAwait].settled = "resolved"
         THEN /\ genPc' = "yield"
              /\ writerPc' = "body"
              /\ writerMsg' = heap[genAwait].value
              /\ UNCHANGED <<heap, sendMessagePromise, genAwait>>
         ELSE /\ heap' = Append(heap, controllablePromise)
              /\ sendMessagePromise' = Len(heap) + 1
              /\ genAwait' = Len(heap) + 1
              /\ UNCHANGED <<genPc, writerPc, writerMsg>>
  /\ UNCHANGED <<transportVars, procVars, tStartPc, readerPc, writerTurn,
                 isTerminated, clientVars, signalAborted, termPc, events,
                 resultsObserved,
                 callPc, linesRead, busVars>>

\* generateMessages: the continuation of `await sendMessagePromise.promise`,
\* up to the next suspension (the yield, the next await, or the return);
\* the for-await of processMessageGenerator receives what it yields.
GenResume ==
  /\ ~InSyncBlock
  /\ GenCanResume
  /\ IF isTerminated
       THEN /\ genPc' = "done"
            /\ writerPc' = "ended"
            /\ UNCHANGED <<heap, sendMessagePromise, genAwait, writerMsg>>
       ELSE /\ heap' = Append(heap, controllablePromise)
            /\ sendMessagePromise' = Len(heap) + 1
            /\ IF heap[genAwait].settled = "resolved"
                 THEN /\ genPc' = "yield"
                      /\ writerPc' = "body"
                      /\ writerMsg' = heap[genAwait].value
                      /\ UNCHANGED genAwait
                 ELSE /\ genAwait' = Len(heap) + 1
                      /\ UNCHANGED <<genPc, writerPc, writerMsg>>
  /\ UNCHANGED <<transportVars, procVars, tStartPc, readerPc, writerTurn,
                 isTerminated, clientVars, signalAborted, termPc, events,
                 resultsObserved,
                 callPc, linesRead, busVars>>

\* a caller of the feeder gives it a prompt after createMessageGenerator()
\* and before generateMessages() is pulled for the first time
SubmitEarly ==
  /\ CallerTask
  /\ heap # <<>>
  /\ genPc = "unstarted"
  /\ heap[sendMessagePromise].settled = "pending"
  /\ heap' = setNextMessage(EarlyPrompt).heap
  /\ sendMessagePromise' = setNextMessage(EarlyPrompt).smp
  /\ UNCHANGED <<transportVars, procVars, loopVars, genAwait, genPc,
                 isTerminated, clientVars, signalAborted, termPc, events,
                 resultsObserved, callPc, linesRead, busVars>>

\* ---- PersistentClient.start and PersistentCLITransport.start ------------------
\* client.start(initialPrompt) up to `await this.findCLI()` in transport.start
ClientStart(seed) ==
  /\ CallerTask
  /\ cStartPc = "idle"
  /\ ~cTransport
  /\ state = "not_started"
  /\ cGen' = TRUE
  /\ heap' = <<controllablePromise>>
  /\ sendMessagePromise' = 1
  /\ cTransport' = TRUE
  /\ seeded' = seed
  /\ state' = "initializing"
  /\ events' = events \o setState(state, "initializing")
  /\ tStartPc' = "findCLI"
  /\ cStartPc' = "transportStart"
  /\ UNCHANGED <<process, sessionId, abortAttached, procVars, readerPc,
                 writerPc, writerMsg, writerTurn, genAwait, genPc,
                 isTerminated, messageCount, pendingMessages, qPc, qResult,
                 stopPc, signalAborted, termPc, resultsObserved,
                 callPc, linesRead, busVars>>

\* transport.start: findCLI or the spawn failed; the catch block
TStartFail ==
  /\ Macrotask
  /\ tStartPc = "findCLI"
  /\ state' = "error"
  /\ events' = events \o setState(state, "error") \o <<ErrorEvent>>
  /\ tStartPc' = "threw"
  /\ cStartPc' = "rejectedSpawn"
  /\ UNCHANGED <<process, sessionId, abortAttached, procVars, readerPc,
                 writerPc, writerMsg, writerTurn, genVars, cTransport, cGen,
                 messageCount, pendingMessages, seeded, qPc, qResult, stopPc,
                 signalAborted, termPc, resultsObserved,
                 callPc, linesRead, busVars>>

\* SubprocessAbortHandler: an abort kills the subprocess behind the handle
AbortKills == procStatus = "running"

\* SubprocessAbortHandler.setup: a signal that is already aborted kills the
\* subprocess at once and arms no listener
abortSetupKills == signalAborted

\* transport.start after findCLI: spawn, abort handling, both loops, 'ready'
TStartSpawn(init) ==
  /\ Macrotask
  /\ tStartPc = "findCLI"
  /\ process' = "defined"
  /\ procStatus' = "running"
  /\ emitsInit' = init
  /\ abortAttached' = ~abortSetupKills
  /\ procKilled' = abortSetupKills
  \* processMessageGenerator pulls generateMessages for the first time
  /\ heap' = Append(heap, controllablePromise)
  /\ sendMessagePromise' = Len(heap) + 1
  /\ genAwait' = Len(heap) + 1
  /\ genPc' = "await"
  /\ writerPc' = "awaitGen"
  /\ readerPc' = "reading"
  /\ state' = "ready"
  /\ events' = events \o setState(state, "ready")
  /\ tStartPc' = "done"
  /\ cStartPc' = "afterTransportStart"
  /\ UNCHANGED <<sessionId, stdinEnded, stdin, procRead, procDone, stdout,
                 initEmitted, writerMsg, writerTurn, isTerminated, cTransport,
                 cGen, messageCount, pendingMessages, seeded, qPc, qResult,
                 stopPc, signalAborted, termPc, resultsObserved,
                 callPc, linesRead, busVars>>

\* transport.start when the spawn fails in the operating system (the working
\* directory is missing, the file cannot be executed): the handle that execa
\* returns has its streams, the failure arrives later as the result of the
\* handle, which nothing awaits before terminate(); both loops, 'ready'
TStartSpawnFail ==
  /\ Macrotask
  /\ tStartPc = "findCLI"
  /\ process' = "defined"
  /\ procStatus' = "failed"
  /\ emitsInit' = FALSE
  /\ abortAttached' = ~abortSetupKills
  /\ procKilled' = abortSetupKills
  /\ heap' = Append(heap, controllablePromise)
  /\ sendMessagePromise' = Len(heap) + 1
  /\ genAwait' = Len(heap) + 1
  /\ genPc' = "await"
  /\ writerPc' = "awaitGen"
  /\ readerPc' = "reading"
  /\ state' = "ready"
  /\ events' = events \o setState(state, "ready")
  /\ tStartPc' = "done"
  /\ cStartPc' = "afterTransportStart"
  /\ UNCHANGED <<sessionId, stdinEnded, stdin, procRead, procDone, stdout,
                 initEmitted, writerMsg, writerTurn, isTerminated, cTransport,
                 cGen, messageCount, pendingMessages, seeded, qPc, qResult,
                 stopPc, signalAborted, termPc, resultsObserved,
                 callPc, linesRead, busVars>>

\* a checkInit that takes the 'ready' state for the initialization
checkInitOnReady ==
  IF cTransport /\ (sessionId # "none" \/ state = "ready") THEN "resolved"
  ELSE IF cTransport /\ state \in {"error", "terminated"} THEN "rejectedFailed"
  ELSE "waitInit"

\* a checkInit that takes the process handle for the initialization
checkInitOnProcess ==
  IF cTransport /\ process = "defined" THEN "resolved"
  ELSE IF cTransport /\ state \in {"error", "terminated"} THEN "rejectedFailed"
  ELSE "waitInit"

\* waitForSessionInit.checkInit: what one check decides
checkInit ==
  IF cTransport /\ sessionId # "none" THEN "resolved"
  ELSE IF cTransport /\ state \in {"error", "terminated"} THEN "rejectedFailed"
  ELSE "waitInit"

\* client.start after `await this.transport.start(...)`
ClientStartResume ==
  /\ ~InSyncBlock
  /\ cStartPc = "afterTransportStart"
  /\ IF seeded /\ ~cGen
       THEN \* this.messageGenerator is undefined: TypeError
            /\ cStartPc' = "threwTypeError"
            /\ UNCHANGED <<heap, sendMessagePromise>>
       ELSE /\ cStartPc' = checkInit
            /\ IF seeded
                 THEN /\ heap' = setNextMessage(SeedPrompt).heap
                      /\ sendMessagePromise' = setNextMessage(SeedPrompt).smp
                 ELSE UNCHANGED <<heap, sendMessagePromise>>
  /\ UNCHANGED <<transportVars, procVars, loopVars, genAwait, genPc,
                 isTerminated, cTransport, cGen, messageCount,
                 pendingMessages, seeded, qPc, qResult, stopPc, signalAborted,
                 termPc, events, resultsObserved,
                 callPc, linesRead, busVars>>

\* waitForSessionInit: a 100 ms check that settles the promise
InitPoll ==
  /\ Macrotask
  /\ cStartPc = "waitInit"
  /\ checkInit # "waitInit"
  /\ cStartPc' = checkInit
  /\ UNCHANGED <<transportVars, procVars, loopVars, genVars, cTransport, cGen,
                 messageCount, pendingMessages, seeded, qPc, qResult, stopPc,
                 signalAborted, termPc, events, resultsObserved,
                 callPc, linesRead, busVars>>

\* waitForSessionInit: the 30 s timer
InitTimeout ==
  /\ Macrotask
  /\ cStartPc = "waitInit"
  /\ cStartPc' = "rejectedTimeout"
  /\ UNCHANGED <<transportVars, procVars, loopVars, genVars, cTransport, cGen,
                 messageCount, pendingMessages, seeded, qPc, qResult, stopPc,
                 signalAborted, termPc, events, resultsObserved,
                 callPc, linesRead, busVars>>

\* ---- further start() calls -----------------------------------------------------
\* a further client.start() on a client that holds a session: it throws
\* 'Client already started'
ClientStartAgain ==
  /\ CallerTask
  /\ callPc.client = "idle"
  /\ cStartPc # "idle"
  /\ cTransport
  /\ callPc' = [callPc EXCEPT !.client = "threwAlreadyStarted"]
  /\ UNCHANGED <<transportVars, procVars, loopVars, genVars, clientVars,
                 signalAborted, termPc, events, resultsObserved,
                 linesRead, busVars>>

\* a start() that does not look at the state of the session
TransportStartAgainUnguarded ==
  /\ CallerTask
  /\ callPc.transport = "idle"
  /\ cTransport
  /\ state # "not_started"
  /\ state' = "initializing"
  /\ events' = events \o setState(state, "initializing")
  /\ tStartPc' = "findCLI"
  /\ callPc' = [callPc EXCEPT !.transport = "started"]
  /\ UNCHANGED <<process, sessionId, abortAttached, procVars, readerPc,
                 writerPc, writerMsg, writerTurn, genVars, clientVars,
                 signalAborted, termPc, resultsObserved,
                 linesRead, busVars>>

\* a further start() on the session of the client, which the client started
\* in the step that built it: it throws ProcessError('Process already started')
TransportStartAgain ==
  /\ CallerTask
  /\ callPc.transport = "idle"
  /\ cTransport
  /\ state # "not_started"
  /\ callPc' = [callPc EXCEPT !.transport = "threwProcessError"]
  /\ UNCHANGED <<transportVars, procVars, loopVars, genVars, clientVars,
                 signalAborted, termPc, events, resultsObserved,
                 linesRead, busVars>>

\* ---- the writer loop: processMessageGenerator ---------------------------------
\* the body of the for-await up to and including setState('processing')
WriterBody ==
  /\ ~InSyncBlock
  /\ writerPc = "body"
  /\ IF ~isAlive
       THEN \* break: the for-await returns the generator
            /\ writerPc' = "ended"
            /\ genPc' = "done"
            /\ UNCHANGED <<state, events, writerTurn>>
       ELSE /\ state' = "processing"
            /\ events' = events \o setState(state, "processing")
            /\ writerTurn' = writerTurn + 1
            /\ writerPc' = "write"
            /\ UNCHANGED genPc
  /\ UNCHANGED <<process, sessionId, abortAttached, procVars, tStartPc,
                 readerPc, writerMsg, heap, sendMessagePromise, genAwait,
                 isTerminated, clientVars, signalAborted, termPc,
                 resultsObserved,
                 callPc, linesRead, busVars>>

\* a writer loop that waits for the pause without writing the prompt
WriterWriteSkipped ==
  /\ writerPc = "write"
  /\ writerPc' = "poll"
  /\ UNCHANGED <<transportVars, procVars, tStartPc, readerPc, writerMsg,
                 writerTurn, genVars, clientVars, signalAborted, termPc,
                 events, resultsObserved,
                 callPc, linesRead, busVars>>

\* stdin.write(messageText + '\n'), then the first checkState of waitForPause
WriterWrite ==
  /\ writerPc = "write"
  /\ stdin' = IF stdinEnded THEN stdin ELSE Append(stdin, writerMsg)
  /\ writerPc' = "poll"
  /\ UNCHANGED <<transportVars, procStatus, procKilled, stdinEnded, procRead,
                 procDone, stdout, emitsInit, initEmitted, tStartPc, readerPc,
                 writerMsg, writerTurn, genVars, clientVars, signalAborted,
                 termPc, events, resultsObserved,
                 callPc, linesRead, busVars>>

\* a waitForPause that does not wait for the result of the turn
waitForPauseDoneAtOnce == state \in {"paused", "ready", "processing"}

\* waitForPause.checkState: the states that end the wait
waitForPauseDone == state \in {"paused", "ready"}

\* waitForPause resolves; the for-await asks the generator for the next turn,
\* which resumes generateMessages after its yield up to the next await
WriterPoll ==
  /\ Macrotask
  /\ writerPc = "poll"
  /\ waitForPauseDone
  /\ writerPc' = "awaitGen"
  /\ writerMsg' = NoValue
  /\ genPc' = "await"
  /\ genAwait' = sendMessagePromise
  /\ UNCHANGED <<transportVars, procVars, tStartPc, readerPc, writerTurn,
                 heap, sendMessagePromise, isTerminated, clientVars,
                 signalAborted, termPc, events, resultsObserved,
                 callPc, linesRead, busVars>>

\* ---- PersistentClient.handleTransportEvent ------------------------------------
\* resolveWaitingForResult: every waiting query() is resumed
resolveWaitingForResult(pcs) ==
  [q \in QueryCalls |-> IF pcs[q] = "waiting" THEN "resolving" ELSE pcs[q]]

\* a handleMessage that ends the wait on every record
handleMessageResolvesAny(line) == line.kind \in {"content", "result"}

\* a handleMessage that ends the wait on the content record of the turn
handleMessageResolvesContent(line) == line.kind = "content"

\* handleMessage: the records that end the wait of a query()
handleMessageResolves(line) == line.kind = "result"

\* ---- the reader loop: processOutput -------------------------------------------
\* a processOutput that takes every line for a record
ParsesAll(line) == TRUE

\* a processOutput that forwards only the records whose type it knows
ParsesKnownTypes(line) ==
  line.kind \in {"init", "content", "result", "error"}

\* the lines that reach the emit calls: not those that are empty once trimmed
\* (continue), those that JSON.parse rejects, and the JSON text null, whose
\* parsed.type throws a TypeError into the same catch block
Parses(line) == line.kind \notin {"blank", "malformed", "null"}

\* one iteration of `for await (const line of rl)`
ReaderLine ==
  /\ Macrotask
  /\ readerPc = "reading"
  /\ stdout # <<>>
  /\ stdout' = Tail(stdout)
  /\ linesRead' = Append(linesRead, Head(stdout))
  /\ LET line == Head(stdout)
         isInit == line.kind = "init"
         isResult == line.kind = "result"
     IN IF signalAborted
          THEN \* throw new AbortError, rethrown by the catch block
               /\ readerPc' = "aborted"
               /\ UNCHANGED <<state, sessionId, events, pendingMessages, qPc,
                              resultsObserved>>
          ELSE IF ~Parses(line)
            THEN UNCHANGED <<readerPc, state, sessionId, events,
                             pendingMessages, qPc, resultsObserved>>
            ELSE /\ sessionId' = IF isInit THEN "S1" ELSE sessionId
                 /\ state' = IF isResult THEN "paused" ELSE state
                 /\ events' = events
                      \o (IF isInit THEN <<SessionInitialized>> ELSE <<>>)
                      \o (IF isResult THEN setState(state, "paused") ELSE <<>>)
                      \o <<MessageEvent(line)>>
                 /\ resultsObserved' =
                      IF isResult THEN resultsObserved + 1 ELSE resultsObserved
                 \* handleMessage, and the 'paused' case of handleTransportEvent
                 /\ pendingMessages' = Append(pendingMessages, line)
                 /\ qPc' = IF (isResult /\ state # "paused")
                                 \/ handleMessageResolves(line)
                             THEN resolveWaitingForResult(qPc)
                             ELSE qPc
                 /\ UNCHANGED readerPc
  /\ UNCHANGED <<process, abortAttached, procStatus, procKilled, stdinEnded,
                 stdin, procRead, procDone, emitsInit, initEmitted, tStartPc,
                 writerPc, writerMsg, writerTurn, genVars, cTransport, cGen,
                 messageCount, cStartPc, seeded, qResult, stopPc,
                 signalAborted, termPc,
                 callPc, busVars>>

\* the output stream ends: the for-await completes
ReaderEnd ==
  /\ Macrotask
  /\ readerPc = "reading"
  /\ stdout = <<>>
  /\ ProcExited
  /\ readerPc' = "ended"
  /\ UNCHANGED <<transportVars, procVars, tStartPc, writerPc, writerMsg,
                 writerTurn, genVars, clientVars, signalAborted, termPc,
                 events, resultsObserved,
                 callPc, linesRead, busVars>>

\* the output stream fails: the catch block of processOutput
ReaderError ==
  /\ Macrotask
  /\ readerPc = "reading"
  /\ procStatus = "running"
  /\ IF signalAborted
       THEN /\ readerPc' = "aborted"
            /\ UNCHANGED <<state, events>>
       ELSE /\ readerPc' = "failed"
            /\ state' = "error"
            /\ events' = events \o setState(state, "error") \o <<ErrorEvent>>
  /\ UNCHANGED <<process, sessionId, abortAttached, procVars, tStartPc,
                 writerPc, writerMsg, writerTurn, genVars, clientVars,
                 signalAborted, termPc, resultsObserved,
                 callPc, linesRead, busVars>>

\* ---- the subprocess -------------------------------------------------------------
Line(k, n) == [kind |-> k, turn |-> n]

\* the init record
ProcEmitInit ==
  /\ Macrotask
  /\ procStatus = "running"
  /\ emitsInit
  /\ ~initEmitted
  /\ initEmitted' = TRUE
  /\ stdout' = Append(stdout, Line("init", 0))
  /\ UNCHANGED <<transportVars, procStatus, procKilled, stdinEnded, stdin,
                 procRead, procDone, emitsInit, loopVars, genVars, clientVars,
                 signalAborted, termPc, events, resultsObserved,
                 callPc, linesRead, busVars>>

\* the subprocess takes the next input line and emits a content record
ProcContent ==
  /\ Macrotask
  /\ procStatus = "running"
  /\ procRead = procDone
  /\ procRead < Len(stdin)
  /\ procRead' = procRead + 1
  /\ stdout' = Append(stdout, Line("content", procRead + 1))
  /\ UNCHANGED <<transportVars, procStatus, procKilled, stdinEnded, stdin,
                 procDone, emitsInit, initEmitted, loopVars, genVars,
                 clientVars, signalAborted, termPc, events, resultsObserved,
                 callPc, linesRead, busVars>>

\* the subprocess ends the turn of that line with a result record
ProcResult ==
  /\ Macrotask
  /\ procStatus = "running"
  /\ procDone < procRead
  /\ procDone' = procDone + 1
  /\ stdout' = Append(stdout, Line("result", procRead))
  /\ UNCHANGED <<transportVars, procStatus, procKilled, stdinEnded, stdin,
                 procRead, emitsInit, initEmitted, loopVars, genVars,
                 clientVars, signalAborted, termPc, events, resultsObserved,
                 callPc, linesRead, busVars>>

\* the subprocess ends the turn of that line with an error-typed record
\* instead of a result record
ProcError ==
  /\ Macrotask
  /\ procStatus = "running"
  /\ procDone < procRead
  /\ procDone' = procDone + 1
  /\ stdout' = Append(stdout, Line("error", procRead))
  /\ UNCHANGED <<transportVars, procStatus, procKilled, stdinEnded, stdin,
                 procRead, emitsInit, initEmitted, loopVars, genVars,
                 clientVars, signalAborted, termPc, events, resultsObserved,
                 callPc, linesRead, busVars>>

\* the output lines that are not records of a turn: an empty line, a line
\* that is not JSON, the JSON text null, a record of a type that is not known
NoiseKinds == {"blank", "malformed", "null", "unknown"}

NoiseCount ==
  LET lines == linesRead \o stdout
  IN Cardinality({i \in 1..Len(lines) : lines[i].kind \in NoiseKinds})

\* the subprocess prints such a line
ProcNoise(k) ==
  /\ Macrotask
  /\ procStatus = "running"
  /\ NoiseCount < MaxNoise
  /\ stdout' = Append(stdout, Line(k, procRead))
  /\ UNCHANGED <<transportVars, procStatus, procKilled, stdinEnded, stdin,
                 procRead, procDone, emitsInit, initEmitted, loopVars,
                 genVars, clientVars, signalAborted, termPc, events,
                 resultsObserved, callPc, linesRead, busVars>>

\* the subprocess exits: after a kill or the end of its input, or by itself
ProcExit ==
  /\ Macrotask
  /\ procStatus = "running"
  /\ procStatus' = IF procKilled \/ stdinEnded THEN "exited" ELSE "crashed"
  /\ UNCHANGED <<transportVars, procKilled, stdinEnded, stdin, procRead,
                 procDone, stdout, emitsInit, initEmitted, loopVars, genVars,
                 clientVars, signalAborted, termPc, events, resultsObserved,
                 callPc, linesRead, busVars>>

\* ---- PersistentCLITransport.terminate -----------------------------------------
\* a terminate() without the early return for 'terminated' and 'not_started'
TerminateSyncUnguarded(c) ==
  /\ stdinEnded' = (stdinEnded \/ process = "defined")
  /\ procKilled' = (procKilled \/
                     (process = "defined" /\ procStatus = "running"))
  /\ IF process = "defined"
       THEN /\ state' = "terminating"
            /\ events' = events \o setState(state, "terminating")
            /\ termPc' = [termPc EXCEPT ![c] = "awaitExit"]
            /\ UNCHANGED <<process, abortAttached>>
       ELSE /\ state' = "terminated"
            /\ events' = events \o setState(state, "terminating")
                                \o <<StateChange("terminated")>>
            /\ termPc' = [termPc EXCEPT ![c] = "returned"]
            /\ abortAttached' = FALSE
            /\ process' = "undefined"

\* terminate() up to `await this.process`; when there is no process handle it
\* runs to its end
TerminateSync(c) ==
  IF state \in {"terminated", "not_started"}
    THEN /\ termPc' = [termPc EXCEPT ![c] = "returned"]
         /\ UNCHANGED <<state, process, abortAttached, stdinEnded, procKilled,
                        events>>
    ELSE /\ stdinEnded' = (stdinEnded \/ process = "defined")
         /\ procKilled' = (procKilled \/
                            (process = "defined" /\ procStatus = "running"))
         /\ IF process = "defined"
              THEN /\ state' = "terminating"
                   /\ events' = events \o setState(state, "terminating")
                   /\ termPc' = [termPc EXCEPT ![c] = "awaitExit"]
                   /\ UNCHANGED <<process, abortAttached>>
              ELSE /\ state' = "terminated"
                   /\ events' = events \o setState(state, "terminating")
                                       \o <<StateChange("terminated")>>
                   /\ termPc' = [termPc EXCEPT ![c] = "returned"]
                   /\ abortAttached' = FALSE
                   /\ process' = "undefined"

\* a terminate() call made on the transport itself
Terminate(c) ==
  /\ CallerTask
  /\ termPc[c] = "idle"
  /\ c = "t2" => termPc["t1"] # "idle"
  /\ TerminateSync(c)
  /\ UNCHANGED <<sessionId, procStatus, stdin, procRead, procDone, stdout,
                 emitsInit, initEmitted, loopVars, genVars, clientVars,
                 signalAborted, resultsObserved,
                 callPc, linesRead, busVars>>

\* terminate() after `await this.process`: setState('terminated'), finally
TerminateResume(c) ==
  /\ ~InSyncBlock
  /\ termPc[c] = "awaitExit"
  /\ ProcExited
  /\ state' = "terminated"
  /\ events' = events \o setState(state, "terminated")
  /\ abortAttached' = FALSE
  /\ process' = "undefined"
  /\ termPc' = [termPc EXCEPT ![c] = "returned"]
  /\ UNCHANGED <<sessionId, procVars, loopVars, genVars, clientVars,
                 signalAborted, resultsObserved,
                 callPc, linesRead, busVars>>

\* ---- PersistentClient.stop ------------------------------------------------------
\* stop() up to `await this.transport.terminate()`, or to its end
Stop(s) ==
  /\ CallerTask
  /\ stopPc[s] = "idle"
  /\ s = "s2" => stopPc["s1"] # "idle"
  /\ IF cGen
       THEN /\ isTerminated' = TRUE
            /\ heap' = genTerminate
            /\ cGen' = FALSE
       ELSE UNCHANGED <<isTerminated, heap, cGen>>
  /\ IF cTransport
       THEN /\ TerminateSync(s)
            /\ stopPc' = [stopPc EXCEPT ![s] = "awaitTerminate"]
            /\ UNCHANGED <<messageCount, pendingMessages>>
       ELSE /\ messageCount' = 0
            /\ pendingMessages' = <<>>
            /\ stopPc' = [stopPc EXCEPT ![s] = "returned"]
            /\ UNCHANGED <<state, process, abortAttached, stdinEnded,
                           procKilled, events, termPc>>
  /\ UNCHANGED <<sessionId, procStatus, stdin, procRead, procDone, stdout,
                 emitsInit, initEmitted, loopVars, sendMessagePromise,
                 genAwait, genPc, cTransport, cStartPc, seeded, qPc, qResult,
                 signalAborted, resultsObserved,
                 callPc, linesRead, busVars>>

\* a stop() that drops the transport and forgets to reset messageCount
StopResumeKeepsCount(s) ==
  /\ ~InSyncBlock
  /\ stopPc[s] = "awaitTerminate"
  /\ termPc[s] = "returned"
  /\ cTransport' = FALSE
  /\ pendingMessages' = <<>>
  /\ stopPc' = [stopPc EXCEPT ![s] = "returned"]
  /\ UNCHANGED <<transportVars, procVars, loopVars, genVars, cGen,
                 messageCount, cStartPc, seeded, qPc, qResult, signalAborted,
                 termPc, events, resultsObserved,
                 callPc, linesRead, busVars>>

\* stop() after the await: the transport is dropped and the counters reset
StopResume(s) ==
  /\ ~InSyncBlock
  /\ stopPc[s] = "awaitTerminate"
  /\ termPc[s] = "returned"
  /\ cTransport' = FALSE
  /\ messageCount' = 0
  /\ pendingMessages' = <<>>
  /\ stopPc' = [stopPc EXCEPT ![s] = "returned"]
  /\ UNCHANGED <<transportVars, procVars, loopVars, genVars, cGen, cStartPc,
                 seeded, qPc, qResult, signalAborted, termPc, events,
                 resultsObserved,
                 callPc, linesRead, busVars>>

\* ---- PersistentClient.query -----------------------------------------------------
Settled(pc) == pc \in {"resolved", "threwNotStarted", "threwNotAlive"}

\* a query() that does not check isAlive()
QueryCallUnchecked(q) ==
  /\ IF ~cTransport \/ ~cGen
       THEN /\ qPc' = [qPc EXCEPT ![q] = "threwNotStarted"]
            /\ UNCHANGED <<pendingMessages, heap, sendMessagePromise,
                           messageCount>>
       ELSE /\ pendingMessages' = <<>>
            /\ heap' = setNextMessage(q).heap
            /\ sendMessagePromise' = setNextMessage(q).smp
            /\ messageCount' = messageCount + 1
            /\ qPc' = [qPc EXCEPT ![q] = "waiting"]
  /\ UNCHANGED <<transportVars, procVars, loopVars, genAwait, genPc,
                 isTerminated, cTransport, cGen, cStartPc, seeded, qResult,
                 stopPc, signalAborted, termPc, events, resultsObserved,
                 callPc, linesRead, busVars>>

\* query(prompt) up to `await this.waitForResult()`
QueryCall(q) ==
  /\ IF ~cTransport \/ ~cGen
       THEN /\ qPc' = [qPc EXCEPT ![q] = "threwNotStarted"]
            /\ UNCHANGED <<pendingMessages, heap, sendMessagePromise,
                           messageCount>>
       ELSE IF ~clientIsAlive
         THEN /\ qPc' = [qPc EXCEPT ![q] = "threwNotAlive"]
              /\ UNCHANGED <<pendingMessages, heap, sendMessagePromise,
                             messageCount>>
         ELSE /\ pendingMessages' = <<>>
              /\ heap' = setNextMessage(q).heap
              /\ sendMessagePromise' = setNextMessage(q).smp
              /\ messageCount' = messageCount + 1
              /\ qPc' = [qPc EXCEPT ![q] = "waiting"]
  /\ UNCHANGED <<transportVars, procVars, loopVars, genAwait, genPc,
                 isTerminated, cTransport, cGen, cStartPc, seeded, qResult,
                 stopPc, signalAborted, termPc, events, resultsObserved,
                 callPc, linesRead, busVars>>

\* a query() call of a caller that serializes its calls
Query(q) ==
  /\ CallerTask
  /\ qPc[q] = "idle"
  /\ \A r \in Queries : r < q => Settled(qPc[r])
  /\ QueryCall(q)

\* a query() call made while an earlier one waits: from the same piece of
\* caller code (Promise.all of two calls) or from a later one
QueryOverlapping ==
  /\ ~InSyncBlock
  /\ qPc[OverlapQuery] = "idle"
  /\ \E r \in Queries : qPc[r] = "waiting"
  /\ QueryCall(OverlapQuery)

\* PersistentClient.getState
getState ==
  [sessionId |-> IF cTransport THEN sessionId ELSE "none",
   processState |-> IF cTransport THEN state ELSE "not_started",
   isAlive |-> clientIsAlive,
   messageCount |-> messageCount]

\* a query() that returns the result record only
QueryResumeResultOnly(q) ==
  /\ ~InSyncBlock
  /\ qPc[q] = "resolving"
  /\ qPc' = [qPc EXCEPT ![q] = "resolved"]
  /\ qResult' = [qResult EXCEPT
                   ![q] = <<[messages |->
                               SelectSeq(pendingMessages,
                                         LAMBDA m : m.kind = "result"),
                             sessionState |-> getState]>>]
  /\ UNCHANGED <<transportVars, procVars, loopVars, genVars, cTransport, cGen,
                 messageCount, pendingMessages, cStartPc, seeded, stopPc,
                 signalAborted, termPc, events, resultsObserved,
                 callPc, linesRead, busVars>>

\* query() after the await: the result is built and returned
QueryResume(q) ==
  /\ ~InSyncBlock
  /\ qPc[q] = "resolving"
  /\ qPc' = [qPc EXCEPT ![q] = "resolved"]
  /\ qResult' = [qResult EXCEPT
                   ![q] = <<[messages |-> pendingMessages,
                             sessionState |-> getState]>>]
  /\ UNCHANGED <<transportVars, procVars, loopVars, genVars, cTransport, cGen,
                 messageCount, pendingMessages, cStartPc, seeded, stopPc,
                 signalAborted, termPc, events, resultsObserved,
                 callPc, linesRead, busVars>>

\* ---- options.signal -------------------------------------------------------------
\* the caller aborts the signal; the abort handler, while armed, kills the
\* subprocess
Abort ==
  /\ CallerTask
  /\ ~signalAborted
  /\ signalAborted' = TRUE
  /\ procKilled' = (procKilled \/ (abortAttached /\ AbortKills))
  /\ UNCHANGED <<transportVars, procStatus, stdinEnded, stdin, procRead,
                 procDone, stdout, emitsInit, initEmitted, loopVars, genVars,
                 clientVars, termPc, events, resultsObserved,
                 callPc, linesRead, busVars>>

\* ---- PersistentCLITransport.on and emit -----------------------------------------
\* the array without the element at index i (Array.prototype.splice(i, 1))
Splice(seq, i) ==
  [j \in 1..(Len(seq) - 1) |-> IF j < i THEN seq[j] ELSE seq[j + 1]]

\* Array.prototype.indexOf: the first index of h, 0 when h is not in the array
IndexOf(seq, h) ==
  IF \E j \in 1..Len(seq) : seq[j] = h
    THEN CHOOSE j \in 1..Len(seq) :
           seq[j] = h /\ \A k \in 1..(j - 1) : seq[k] # h
    ELSE 0

\* the function returned by on(handler), applied to the array
unsubscribe(seq, h) ==
  IF IndexOf(seq, h) > 0 THEN Splice(seq, IndexOf(seq, h)) ELSE seq

\* emit: `for (const handler of this.eventHandlers)` from index i on; the
\* iterator reads the array itself, step by step.  A handler of `leavers`
\* calls its own unsubscribe function while it handles the event; what a
\* handler throws is caught and logged.
RECURSIVE emitFrom(_, _, _, _)
emitFrom(handlers, i, leavers, received) ==
  IF i > Len(handlers)
    THEN [handlers |-> handlers, received |-> received]
    ELSE LET h == handlers[i]
         IN emitFrom(IF h \in leavers THEN unsubscribe(handlers, h)
                                      ELSE handlers,
                     i + 1, leavers,
                     [received EXCEPT ![h] = @ + 1])

\* on(handler), for a handler that is not subscribed
Subscribe(h) ==
  /\ \A j \in 1..Len(eventHandlers) : eventHandlers[j] # h
  /\ eventHandlers' = Append(eventHandlers, h)
  /\ UNCHANGED <<transportVars, procVars, loopVars, genVars, clientVars,
                 signalAborted, termPc, callPc, events, resultsObserved,
                 linesRead, lastDispatch>>

\* the function returned by on(handler), called between two events
Unsubscribe(h) ==
  /\ IndexOf(eventHandlers, h) > 0
  /\ eventHandlers' = unsubscribe(eventHandlers, h)
  /\ UNCHANGED <<transportVars, procVars, loopVars, genVars, clientVars,
                 signalAborted, termPc, callPc, events, resultsObserved,
                 linesRead, lastDispatch>>

\* emit(event): the handlers of `throwers` throw, those of `leavers`
\* unsubscribe themselves, while they handle the event
Emit(leavers, throwers) ==
  /\ eventHandlers # <<>>
  /\ LET zero == [h \in Handlers |-> 0]
         done == emitFrom(eventHandlers, 1, leavers, zero)
         subscribed == {eventHandlers[j] : j \in 1..Len(eventHandlers)}
     IN /\ eventHandlers' = done.handlers
        /\ lastDispatch' = [atStart |-> eventHandlers,
                            left |-> leavers \cap subscribed,
                            threw |-> throwers \cap subscribed,
                            received |-> done.received]
  /\ UNCHANGED <<transportVars, procVars, loopVars, genVars, clientVars,
                 signalAborted, termPc, callPc, events, resultsObserved,
                 linesRead>>

\* ---- the specifications ---------------------------------------------------------
\* one session of a client whose caller starts it and sends queries
SessionNext ==
  \/ \E seed \in BOOLEAN : ClientStart(seed)
  \/ TStartFail
  \/ \E init \in BOOLEAN : TStartSpawn(init)
  \/ ClientStartResume
  \/ InitPoll
  \/ InitTimeout
  \/ GenResume
  \/ WriterBody
  \/ WriterWrite
  \/ WriterPoll
  \/ ReaderLine
  \/ ReaderEnd
  \/ ReaderError
  \/ ProcEmitInit
  \/ ProcContent
  \/ ProcResult
  \/ ProcExit
  \/ \E q \in Queries : Query(q)
  \/ \E q \in Queries : QueryResume(q)

Next == SessionNext

Spec == Init /\ [][Next]_vars

\* the session with terminate() called on the transport, up to twice
TerminateNext ==
  \/ SessionNext
  \/ \E c \in DirectCalls : Terminate(c)
  \/ \E c \in DirectCalls : TerminateResume(c)

SpecTerminate == Init /\ [][TerminateNext]_vars

\* the session with stop() called on the client, up to twice
StopNext ==
  \/ SessionNext
  \/ \E s \in StopCalls : Stop(s)
  \/ \E s \in StopCalls : TerminateResume(s)
  \/ \E s \in StopCalls : StopResume(s)

SpecStop == Init /\ [][StopNext]_vars

\* the session with the caller's abort signal
AbortNext ==
  \/ SessionNext
  \/ Abort

SpecAbort == Init /\ [][AbortNext]_vars

\* the session against a subprocess that can end a turn with an error record
FailureNext ==
  \/ SessionNext
  \/ ProcError

SpecFailure == Init /\ [][FailureNext]_vars

\* the session with a caller that does not serialize its query() calls
OverlapNext ==
  \/ SessionNext
  \/ QueryOverlapping
  \/ QueryResume(OverlapQuery)

SpecOverlap == Init /\ [][OverlapNext]_vars

\* the session with one terminate() call and further start() calls
SingleUseNext ==
  \/ SessionNext
  \/ Terminate("t1")
  \/ TerminateResume("t1")
  \/ ClientStartAgain
  \/ TransportStartAgain

SpecSingleUse == Init /\ [][SingleUseNext]_vars

\* the session against a subprocess that also prints lines that are not
\* records of a turn
NoiseNext ==
  \/ SessionNext
  \/ ProcError
  \/ \E k \in NoiseKinds : ProcNoise(k)

SpecNoise == Init /\ [][NoiseNext]_vars

\* the session with one stop() called on the client, under fair
\* scheduling: the event loop runs every continuation and every timer that is
\* due, the search for the executable ends, the subprocess answers the input
\* it was given, and exits once it is killed or its input is closed.  The
\* calls of the caller, a crash of the subprocess by itself and a failure of
\* the output stream are not forced to happen.
ShutdownNext ==
  \/ SessionNext
  \/ Stop("s1")
  \/ TerminateResume("s1")
  \/ StopResume("s1")

ShutdownFairness ==
  /\ WF_vars(TStartFail \/ \E init \in BOOLEAN : TStartSpawn(init))
  /\ WF_vars(ClientStartResume)
  /\ WF_vars(InitPoll)
  /\ WF_vars(InitTimeout)
  /\ WF_vars(GenResume)
  /\ WF_vars(WriterBody)
  /\ WF_vars(WriterWrite)
  /\ WF_vars(WriterPoll)
  /\ WF_vars(ReaderLine)
  /\ WF_vars(ReaderEnd)
  /\ WF_vars(ProcEmitInit)
  /\ WF_vars(ProcContent)
  /\ WF_vars(ProcResult)
  /\ WF_vars((procKilled \/ stdinEnded) /\ ProcExit)
  /\ \A q \in Queries : WF_vars(QueryResume(q))
  /\ WF_vars(TerminateResume("s1"))
  /\ WF_vars(StopResume("s1"))

SpecShutdown == Init /\ [][ShutdownNext]_vars /\ ShutdownFairness

\* a query() call of a caller that has awaited start()
QueryAfterStart(q) ==
  /\ cStartPc = "resolved"
  /\ Query(q)

\* the session of a caller that awaits start() before its first query()
AwaitedNext ==
  \/ \E seed \in BOOLEAN : ClientStart(seed)
  \/ TStartFail
  \/ \E init \in BOOLEAN : TStartSpawn(init)
  \/ ClientStartResume
  \/ InitPoll
  \/ InitTimeout
  \/ GenResume
  \/ WriterBody
  \/ WriterWrite
  \/ WriterPoll
  \/ ReaderLine
  \/ ReaderEnd
  \/ ReaderError
  \/ ProcEmitInit
  \/ ProcContent
  \/ ProcResult
  \/ ProcExit
  \/ \E q \in Queries : QueryAfterStart(q)
  \/ \E q \in Queries : QueryResume(q)

SpecAwaited == Init /\ [][AwaitedNext]_vars

\* the session with a prompt given to the feeder before its first pull
FeederNext ==
  \/ SessionNext
  \/ SubmitEarly

SpecFeeder == Init /\ [][FeederNext]_vars

\* the session when the spawn of the subprocess can fail
SpawnFailureNext ==
  \/ SessionNext
  \/ TStartSpawnFail

SpecSpawnFailure == Init /\ [][SpawnFailureNext]_vars

\* the subscribers of a transport and the events it emits to them
BusNext ==
  \/ \E h \in Handlers : Subscribe(h)
  \/ \E h \in Handlers : Unsubscribe(h)
  \/ \E leavers \in SUBSET Handlers : \E throwers \in SUBSET Handlers :
       Emit(leavers, throwers)

SpecBus == Init /\ [][BusNext]_vars

\* ---- observations used by the properties -----------------------------------------
\* the states the transport went through, from its state_change events
StateTrace ==
  LET changes == SelectSeq(events, LAMBDA e : e.type = "state_change")
  IN <<"not_started">> \o [i \in 1..Len(changes) |-> changes[i].state]

EverReady == \E i \in 1..Len(events) : events[i] = StateChange("ready")

NoQueryPending == \A q \in Queries : qPc[q] \notin {"waiting", "resolving"}
QueriesResolved == Cardinality({q \in Queries : qPc[q] = "resolved"})

C2_ProcessingAfterWrite ==
  state = "processing" => Len(stdin) >= writerTurn

\* C2 amended: the writer loop sets 'processing' and then writes the prompt in
\* one synchronous step; whenever the state is 'processing' outside that step
\* (an output line is read, a timer fires, the caller runs) and the input
\* stream is open, the prompt of the turn is on the input stream.
C2_WrittenWhenObserved ==
  (state = "processing" /\ ~InSyncBlock /\ ~stdinEnded)
    => Len(stdin) = writerTurn

C2_Witness ==
  /\ state = "processing"
  /\ writerPc = "poll"
  /\ writerTurn = 2
  /\ Len(stdin) = 2

\* ---- C3 ---------------------------------------------------------------------------
\* C3: at most one turn is outstanding: the number of lines written to the
\* input stream minus the number of result records observed is 0 or 1.
C3_AtMostOneOutstanding ==
  Len(stdin) - resultsObserved \in {0, 1}

C3_Witness ==
  /\ Len(stdin) = 2
  /\ resultsObserved = 1
  /\ state = "processing"

\* ---- C4 ---------------------------------------------------------------------------
LifecycleEdges ==
  {<<"not_started", "initializing">>, <<"initializing", "ready">>,
   <<"ready", "processing">>, <<"processing", "paused">>,
   <<"paused", "processing">>, <<"terminating", "terminated">>}
   \cup (ProcessStates \X {"terminating", "error"})

\* C4 as stated: every state change follows an edge of the lifecycle machine.
C4_LifecycleEdgesOnly ==
  \A i \in 1..(Len(StateTrace) - 1) :
    <<StateTrace[i], StateTrace[i + 1]>> \in LifecycleEdges

\* ---- C5 ---------------------------------------------------------------------------
ActiveStates == {"initializing", "ready", "processing", "paused"}

\* C5 as stated: once the state has been 'terminated' or 'error' it never
\* becomes 'initializing', 'ready', 'processing' or 'paused' again.
C5_TerminalStatesAreFinal ==
  \A i \in 1..Len(StateTrace) : \A j \in 1..Len(StateTrace) :
    (i < j /\ StateTrace[i] \in {"terminated", "error"})
      => StateTrace[j] \notin ActiveStates

\* ---- C6 ---------------------------------------------------------------------------
\* C6: terminate() called in 'not_started' or 'terminated' returns at once and
\* changes nothing; every other terminate() call, a second one made during the
\* first included, returns with the state 'terminated'.
C6_TerminateIdempotent ==
  [][\A c \in DirectCalls :
       /\ (termPc[c] = "idle" /\ termPc'[c] # "idle"
             /\ state \in {"not_started", "terminated"})
            => /\ termPc'[c] = "returned"
               /\ UNCHANGED <<state, process, abortAttached, stdinEnded,
                              procKilled, events>>
       /\ (termPc[c] # "returned" /\ termPc'[c] = "returned"
             /\ state # "not_started")
            => state' = "terminated"]_vars

C6_Witness ==
  /\ termPc["t1"] = "returned"
  /\ termPc["t2"] = "returned"
  /\ tStartPc = "done"
  /\ procStatus = "exited"
  /\ state = "terminated"

\* ---- C7 ---------------------------------------------------------------------------
\* C7: when a stop() call returns, messageCount is 0, the record buffer is
\* empty, isAlive() is false, the client holds no feeder and no session, the
\* feeder it held has been terminated and the session it terminated is in the
\* state 'terminated'.
C7_StopResets ==
  [][\A s \in StopCalls :
       (stopPc[s] # "returned" /\ stopPc'[s] = "returned")
         => /\ messageCount' = 0
            /\ pendingMessages' = <<>>
            /\ ~clientIsAlive'
            /\ ~cGen' /\ ~cTransport'
            /\ (heap # <<>> => isTerminated')
            /\ (stopPc[s] = "awaitTerminate" => state' = "terminated")]_vars

C7_Witness ==
  /\ stopPc["s1"] = "returned"
  /\ stopPc["s2"] = "returned"
  /\ termPc["s1"] = "returned"
  /\ termPc["s2"] = "returned"
  /\ resultsObserved >= 1
  /\ messageCount = 0
  /\ state = "terminated"

\* ---- C8 ---------------------------------------------------------------------------
\* C8 as stated: when the subprocess emits no init record and start() is
\* rejected by the timeout, the state was never 'ready'.
C8_NeverReadyOnTimeout ==
  (~emitsInit /\ cStartPc = "rejectedTimeout") => ~EverReady

\* C8 amended: when the subprocess emits no init record, start() does not
\* resolve; when the timeout rejects it, no session identifier is known and
\* the state has been 'ready' since the subprocess was spawned.
C8_TimeoutAfterReady ==
  /\ ~emitsInit => (cStartPc # "resolved" /\ sessionId = "none")
  /\ cStartPc = "rejectedTimeout" => EverReady

C8_Witness ==
  /\ ~emitsInit
  /\ cStartPc = "rejectedTimeout"
  /\ EverReady
  /\ state = "ready"

\* ---- C9 ---------------------------------------------------------------------------
\* the queries whose prompt the subprocess took without ending their turn
QueriesInFlight ==
  {q \in Queries : \E i \in (procDone + 1)..procRead : stdin[i] = q}

\* C9 as stated: when the subprocess has exited by itself in the middle of the
\* turn of a query(), and the output has been read to its end, the query() is
\* not left waiting, the state is 'error' and isAlive() is false.
C9_PrematureExitRejects ==
  (procStatus = "crashed" /\ readerPc = "ended" /\ QueriesInFlight # {})
    => /\ \A q \in QueriesInFlight : qPc[q] # "waiting"
       /\ state = "error"
       /\ ~clientIsAlive

\* ---- C10 --------------------------------------------------------------------------
\* C10 as stated: when the abort of the signal has killed the subprocess and
\* the reader loop has stopped, no query() is still waiting for its result
\* (the one that waited has been rejected).
C10_AbortRejectsQuery ==
  (signalAborted /\ procKilled /\ readerPc \in {"aborted", "ended"})
    => \A q \in Queries : qPc[q] # "waiting"

\* ---- C11 --------------------------------------------------------------------------
\* the error-typed record of the turn of query q has been delivered to the
\* client as a message event
ErrorRecordObserved(q) ==
  \E i \in 1..Len(events) :
    /\ events[i].type = "message"
    /\ events[i].kind = "error"
    /\ stdin[events[i].turn] = q

\* the reader loop has emitted an error event (the state is then 'error', in
\* which query() throws at once: a query() that waits was submitted before)
ErrorEventEmitted == readerPc = "failed"

\* C11 as stated: once a failure has been signalled after the submission of a
\* query(), by an error event of the session or by an error-typed record of
\* its turn, that query() is not left waiting for its result.
C11_FailureRejectsQuery ==
  \A q \in Queries :
    (ErrorRecordObserved(q) \/ ErrorEventEmitted)
      => qPc[q] \notin {"waiting", "resolving"}

\* ---- C12 --------------------------------------------------------------------------
\* C12: a query() call made when the client holds no session or no feeder
\* (before start(), after stop()) or when isAlive() is false throws, and
\* changes neither the feeder, nor messageCount, nor the record buffer, nor
\* the input stream.
C12_RefusedQueryHasNoEffect ==
  [][\A q \in Queries :
       (qPc[q] = "idle" /\ qPc'[q] # "idle"
          /\ (~cTransport \/ ~cGen \/ ~clientIsAlive))
         => /\ qPc'[q] \in {"threwNotStarted", "threwNotAlive"}
            /\ UNCHANGED <<heap, sendMessagePromise, genAwait, messageCount,
                           pendingMessages, stdin>>]_vars

C12_Witness ==
  /\ qPc[1] = "threwNotStarted"
  /\ cStartPc = "resolved"
  /\ stopPc["s1"] = "returned"
  /\ resultsObserved >= 1

\* ---- C13 --------------------------------------------------------------------------
\* C13: whenever start() has resolved, the session identifier is the one of
\* the init record, the snapshot of getState() reports it, the init record has
\* been read and a session_initialized event has been emitted.
C13_ResolvedAfterInit ==
  cStartPc = "resolved"
    => /\ sessionId = "S1"
       /\ getState.sessionId = "S1"
       /\ initEmitted
       /\ \E i \in 1..Len(events) : events[i] = SessionInitialized

C13_Witness ==
  /\ cStartPc = "resolved"
  /\ sessionId = "S1"
  /\ ~seeded
  /\ qPc[1] = "idle"

\* ---- C14 --------------------------------------------------------------------------
\* the number of content records among the records a query() returned
ContentRecords(msgs) ==
  Cardinality({i \in 1..Len(msgs) : msgs[i].kind = "content"})

C15_StatusTracksSettlement ==
  \A i \in 1..Len(heap) : heap[i].status = heap[i].settled

\* ---- C16 --------------------------------------------------------------------------
\* the turns generateMessages has yielded: the writer loop, which consumes
\* them, has written them to the input stream, holds the last one before its
\* write, or has left the loop with it
Yielded ==
  stdin \o (IF writerPc \in {"body", "write"}
               \/ (writerPc = "ended" /\ writerMsg # NoValue)
             THEN <<writerMsg>> ELSE <<>>)

\* the prompts given to setNextMessage, in the order of the calls: the seed
\* prompt of start(), then the prompts of the query() calls that passed
\* their checks
Submitted ==
  (IF seeded /\ cStartPc \in {"waitInit", "resolved", "rejectedFailed",
                               "rejectedTimeout"}
     THEN <<SeedPrompt>> ELSE <<>>)
  \o SelectSeq([q \in 1..MaxQueries |-> q],
               LAMBDA q : qPc[q] \in {"waiting", "resolving", "resolved"})

\* every yielded turn is the submitted prompt of its position; at most one
\* submitted prompt is not yet yielded, and none when the generator waits for
\* a submission
YieldedAreSubmitted ==
  /\ Len(Submitted) - Len(Yielded) \in {0, 1}
  /\ \A i \in 1..Len(Yielded) : Yielded[i] = Submitted[i]
  /\ (genPc = "await" /\ heap[genAwait].settled = "pending")
       => Yielded = Submitted

\* every prompt is submitted after the prompts before it have been yielded:
\* the query() calls are serialized and, on a session started with a seed
\* prompt (whose result record ends the wait of the first query()), at most
\* one query() has been submitted
SingleFlight ==
  \/ ~seeded
  \/ \A q \in Queries :
       q > 1 => qPc[q] \notin {"waiting", "resolving", "resolved"}

\* C16: when every prompt is submitted after the prompts before it have been
\* yielded, the turns yielded by generateMessages are the submitted prompts,
\* each once and in the order of submission.
C16_YieldedInSubmissionOrder ==
  SingleFlight => YieldedAreSubmitted

C16_Witness ==
  /\ Submitted = <<SeedPrompt, 1>>
  /\ Yielded = Submitted
  /\ genPc = "await"
  /\ heap[genAwait].settled = "pending"

\* ---- C17 --------------------------------------------------------------------------
\* C17 as stated: when setNextMessage(b) is called while a prompt submitted
\* before has not been yielded, the feeder replaces its current promise by a
\* new one resolved with b (so that b, not the earlier prompt, is yielded).
C17_OverlapReplacesSlot ==
  [][(qPc[OverlapQuery] = "idle" /\ qPc'[OverlapQuery] = "waiting"
        /\ Len(Yielded) < Len(Submitted))
       => /\ sendMessagePromise' # sendMessagePromise
          /\ heap'[sendMessagePromise'].settled = "resolved"
          /\ heap'[sendMessagePromise'].value = OverlapQuery]_vars

\* ---- C18 --------------------------------------------------------------------------
\* the feeder was terminated before generateMessages was pulled for the first
\* time: the promise of createMessageGenerator itself was rejected
TerminatedBeforePull == heap # <<>> /\ heap[1].settled = "rejected"

\* the terminated generator ends at its next step: the promise it awaits is
\* settled (its continuation is scheduled and leaves the loop), or it is
\* suspended at its yield and the promise it will await is settled
FeederEnds ==
  /\ genPc \in {"await", "yield", "done"}
  /\ genPc = "await" => heap[genAwait].settled # "pending"
  /\ genPc = "yield" => heap[sendMessagePromise].settled # "pending"

SessionFailed ==
  \/ procStatus = "crashed"
  \/ cStartPc \in {"rejectedSpawn", "rejectedTimeout"}

\* C21 as stated: a further start() on a client whose session has failed, with
\* no stop() in between, does not throw but builds a fresh session; and no
\* step other than the first start() of the client makes a session initialize.
C21_StartAgainRecovers ==
  [][/\ (SessionFailed /\ callPc.client = "idle" /\ callPc'.client # "idle")
          => callPc'.client # "threwAlreadyStarted"
     /\ (state # "initializing" /\ state' = "initializing")
          => cStartPc = "idle"
    ]_vars

\* ---- C22 --------------------------------------------------------------------------
\* locating the executable or spawning it has failed
StartFailed == tStartPc = "threw" \/ procStatus = "failed"

\* the error events, and the error events that follow the change to 'error'
ErrorEvents == {i \in 1..Len(events) : events[i] = ErrorEvent}
ErrorEventsAfterChange ==
  {i \in ErrorEvents : \E j \in 1..(i - 1) : events[j] = StateChange("error")}

\* C22 as stated: when locating or spawning the executable has failed, start()
\* is rejected with that error, the states were initializing then error and
\* never ready, exactly one error event was emitted and it follows the state
\* change, neither loop was started, and isAlive() is false.
C22_StartFailure ==
  StartFailed =>
    /\ cStartPc = "rejectedSpawn"
    /\ StateTrace = <<"not_started", "initializing", "error">>
    /\ Cardinality(ErrorEvents) = 1
    /\ ErrorEventsAfterChange = ErrorEvents
    /\ writerPc = "off"
    /\ readerPc = "off"
    /\ ~clientIsAlive

\* ---- C23 --------------------------------------------------------------------------
\* the reader loop takes the next line of the output
ReaderTakes(line) ==
  /\ readerPc = "reading"
  /\ stdout # <<>>
  /\ Head(stdout) = line
  /\ linesRead' = Append(linesRead, line)

\* C23 as stated: the step of the reader loop that takes a line which is not
\* JSON changes neither the state, nor the session id, nor the buffer of the
\* caller, nor any query(), emits no event, and leaves the loop reading, so
\* that the lines after it are processed from the same state as without it.
C23_MalformedLineSkipped ==
  [][ReaderTakes(Line("malformed", procRead))
       => UNCHANGED <<state, sessionId, pendingMessages, messageCount, events,
                      qPc, qResult, resultsObserved, readerPc, writerPc>>
    ]_vars

\* a malformed line was skipped within the turn of a query(), whose result
\* record, read after it, resolved the query()
C23_Witness ==
  /\ \E i \in 1..Len(linesRead) : \E j \in (i + 1)..Len(linesRead) :
       /\ linesRead[i].kind = "malformed"
       /\ linesRead[j].kind = "result"
  /\ \E q \in Queries : qPc[q] = "resolved"

\* ---- C24 --------------------------------------------------------------------------
\* the message events, in the order of their emission
MessageEvents == SelectSeq(events, LAMBDA e : e.type = "message")

\* the message events of a sequence of lines, one for each line
Forwarded(lines) == [i \in 1..Len(lines) |-> MessageEvent(lines[i])]

\* C24 as stated: the message events are the lines that the reader loop has
\* taken and that are JSON (not empty, not rejected by JSON.parse), one event
\* for each line, whatever its type, in the order of the lines.
C24_EveryParsedLineForwarded ==
  MessageEvents =
    Forwarded(SelectSeq(linesRead,
                        LAMBDA l : l.kind \notin {"blank", "malformed"}))

\* C24 for the lines whose JSON value is not null
C24_EveryRecordForwarded ==
  MessageEvents =
    Forwarded(SelectSeq(linesRead, LAMBDA l :
                          l.kind \notin {"blank", "malformed", "null"}))

\* a record of a type that is not known was forwarded between the content
\* record and the result record of a turn
C24_Witness ==
  \E i \in 1..Len(MessageEvents) :
    /\ i + 2 <= Len(MessageEvents)
    /\ MessageEvents[i].kind = "content"
    /\ MessageEvents[i + 1].kind = "unknown"
    /\ MessageEvents[i + 2].kind = "result"

\* ---- C25 --------------------------------------------------------------------------
\* both loops of the transport have been started
LoopsStarted == writerPc # "off" /\ readerPc # "off"

\* stop() has ended the feeder and called terminate() on the running
\* session, which has closed the input, killed the subprocess and waits for
\* its exit
ShutdownRequested == LoopsStarted /\ termPc["s1"] = "awaitExit"

\* processMessageGenerator and processOutput have returned or thrown
LoopsExited ==
  /\ writerPc \in {"ended", "aborted", "failed"}
  /\ readerPc \in {"ended", "aborted", "failed"}

\* C25 as stated, for stop(): once stop() has been called on a running
\* session, under fair scheduling the writer loop and the reader loop
\* eventually exit.
C25_ShutdownStopsLoops == ShutdownRequested ~> LoopsExited

\* ---- C26 --------------------------------------------------------------------------
\* the record belongs to the turn of the prompt p: it is the answer of the
\* subprocess to the input line that carries p
RecordOfPrompt(m, p) ==
  /\ m.turn \in 1..Len(stdin)
  /\ stdin[m.turn] = p

\* C26 as stated: the content and result records that a resolved query()
\* returns belong to the turn of its own prompt, and so does the result
\* record at their end; this holds as well when start(seed) has resolved
\* while the turn of the seed is in progress.
C26_ResultIsOfOwnTurn ==
  \A q \in Queries :
    qPc[q] = "resolved" =>
      LET msgs == qResult[q][1].messages
      IN \A i \in 1..Len(msgs) :
           msgs[i].kind \in {"content", "result"}
             => RecordOfPrompt(msgs[i], q)

\* ---- C27 --------------------------------------------------------------------------
\* stop() has been called while the query() waits for its result
PendingAtStop(q) == qPc[q] = "waiting" /\ stopPc["s1"] # "idle"

\* C27 as stated: a query() that waits for its result when stop() is called
\* is eventually settled, under fair scheduling.
C27_PendingQuerySettled ==
  \A q \in Queries : PendingAtStop(q) ~> Settled(qPc[q])

\* ---- C28 --------------------------------------------------------------------------
\* the promise made by createMessageGenerator() was resolved with the prompt
\* before the first pull
EarlySubmitted ==
  /\ heap # <<>>
  /\ heap[1].settled = "resolved"
  /\ heap[1].value = EarlyPrompt

\* C28 as stated: once generateMessages() has been pulled, a prompt given
\* before the first pull is the next turn the generator yields, or the first
\* turn it has yielded.
C28_EarlyPromptNotLost ==
  (EarlySubmitted /\ genPc # "unstarted") =>
    IF Yielded = <<>>
      THEN /\ genPc = "await"
           /\ heap[genAwait].settled = "resolved"
           /\ heap[genAwait].value = EarlyPrompt
      ELSE Yielded[1] = EarlyPrompt

\* ---- C29 --------------------------------------------------------------------------
\* the event is the message event of a result record
ResultMessage(e) == e.type = "message" /\ e.kind = "result"

C30_EachSubscriberOnce ==
  /\ \A j \in 1..Len(lastDispatch.atStart) :
       lastDispatch.atStart[j] \notin lastDispatch.left
         => lastDispatch.received[lastDispatch.atStart[j]] = 1
  /\ \A h \in Handlers :
       (\A j \in 1..Len(lastDispatch.atStart) : lastDispatch.atStart[j] # h)
         => lastDispatch.received[h] = 0

====
